---- MODULE Spec2Model ----
(***************************************************************************)
(* Model of src/src/server.py: the Flask gateway in front of an Ollama     *)
(* daemon.  A session is one HTTP request to /api/chat or /api/chat/simple.*)
(* For /api/chat the model follows the two nested generators               *)
(* (OllamaClient.generate_stream inside chat.generate) from one suspension *)
(* point to the next.                                                      *)
(***************************************************************************)
EXTENDS Integers, Sequences, FiniteSets, TLC

\* ------------------------------------------------------------------ bounds
\* longest upstream body, in lines, that one streaming call may deliver
MaxLines == 3
\* longest raw "message" string of a request, in characters
MaxMsgLen == 2
\* longest upstream body, in lines, when two sessions run side by side
ConcMaxLines == 2

\* --------------------------------------------------------------- constants
DEFAULT_MODEL == "codellama"
ConnFailedMsg == "Connection to Ollama failed. Is Ollama running?"
RequestFailedMsg == "Request failed: <exc>"
ExcMsg == "<exc>"
NoDataMsg == "No data provided"
MessageRequiredMsg == "Message is required"

InternalErrorMsg == "Internal server error"
UnknownName == "unknown"
\* str() of the HTTPError raise_for_status() raises: status, reason and URL
HttpErrorMsg == "500 Server Error: Internal Server Error for url: <url>/api/generate"

\* OLLAMA_API_URL as the module defines it, and a value --ollama-url may give
DefaultUrl == "http://localhost:11434"
OtherUrl == "http://gpu-box:11434"
Urls == {DefaultUrl, OtherUrl}

StatFields == {"total_duration", "load_duration", "prompt_eval_count", "eval_count"}
NoStats == [f \in StatFields |-> 0]

\* ------------------------------------------------------- request bodies
\* characters of a message: one whitespace character and one other
Chars == {" ", "a"}
Whitespace == {" "}

RECURSIVE SeqsUpTo(_, _)
SeqsUpTo(S, n) ==
  IF n = 0 THEN {<<>>}
  ELSE LET shorter == SeqsUpTo(S, n - 1)
       IN  shorter \cup {Append(q, c) : q \in {r \in shorter : Len(r) = n - 1}, c \in S}

Messages == SeqsUpTo(Chars, MaxMsgLen)

\* request.json: None when there is no body, else a dict; keys is the set of
\* fields the dict holds, absent fields carry a placeholder value
NoBody == [present |-> FALSE, keys |-> {}, message |-> <<>>, model |-> ""]
Dict(keys, message, model) ==
  [present |-> TRUE, keys |-> keys, message |-> message, model |-> model]
Bodies ==
  {NoBody, Dict({}, <<>>, ""), Dict({"model"}, <<>>, "llama3")}
    \cup {Dict({"message"}, m, "") : m \in Messages}
    \cup {Dict({"message", "model"}, m, "llama3") : m \in Messages}

\* Python truthiness of request.json: None and {} are falsy
Truthy(data) == data.present /\ data.keys # {}

\* str.strip(): drop leading and trailing whitespace
RECURSIVE LStrip(_)
LStrip(m) ==
  IF m # <<>> /\ Head(m) \in Whitespace THEN LStrip(Tail(m)) ELSE m
RECURSIVE RStrip(_)
RStrip(m) ==
  IF m # <<>> /\ m[Len(m)] \in Whitespace THEN RStrip(SubSeq(m, 1, Len(m) - 1)) ELSE m
StripIdentity(m) == m
Strip(m) == RStrip(LStrip(m))

\* data.get('message', '') and data.get('model', DEFAULT_MODEL)
GetMessage(data) == IF "message" \in data.keys THEN data.message ELSE <<>>
GetModel(data) == IF "model" \in data.keys THEN data.model ELSE DEFAULT_MODEL

\* ------------------------------------------------- upstream JSON objects
Obj(keys, error, response, done, stats) ==
  [keys |-> keys, error |-> error, response |-> response, done |-> done, stats |-> stats]
EmptyObj == Obj({}, "", "", FALSE, NoStats)
Has(o, k) == k \in o.keys
\* chunk.get(f, 0) for a statistics field f
GetStat(o, f) == IF f \in o.keys THEN o.stats[f] ELSE 0
\* chunk.get('done', False)
GetDone(o) == IF "done" \in o.keys THEN o.done ELSE FALSE

ObjA == Obj({"response"}, "", "a", FALSE, NoStats)
ObjB == Obj({"response"}, "", "b", FALSE, NoStats)
ObjBDone ==
  Obj({"response", "done", "eval_count"}, "", "b", TRUE,
      [NoStats EXCEPT !["eval_count"] = 7])
ObjDone ==
  Obj({"done"} \cup StatFields, "", "", TRUE,
      [f \in StatFields |->
         CASE f = "total_duration" -> 5 [] f = "load_duration" -> 2
           [] f = "prompt_eval_count" -> 3 [] OTHER -> 4])
ObjErr == Obj({"error"}, "boom", "", FALSE, NoStats)
ObjErrResp == Obj({"error", "response", "done"}, "boom", "a", TRUE, NoStats)
Objects == {ObjA, ObjB, ObjBDone, ObjDone, ObjErr, ObjErrResp}

\* one line of the upstream body, as response.iter_lines() delivers it:
\*   blank    an empty line
\*   badutf8  bytes that are not UTF-8
\*   badjson  text that is not JSON
\*   scalar   a JSON value that is not an object (a number, a string, ...)
\*   object   a JSON object
Line(kind, o) == [kind |-> kind, obj |-> o]
Lines ==
  {Line(k, EmptyObj) : k \in {"blank", "badutf8", "badjson", "scalar"}}
    \cup {Line("object", o) : o \in Objects}

\* ------------------------------------------------------ outbound chunks
Chunk(type, text, stats) == [type |-> type, text |-> text, stats |-> stats]
ResponseChunk(o) == Chunk("response", o.response, NoStats)
DoneChunkZeroStats(o) == Chunk("done", "", NoStats)
DoneChunk(o) == Chunk("done", "", [f \in StatFields |-> GetStat(o, f)])
ErrorChunk(msg) == Chunk("error", msg, NoStats)
Sentinel == Chunk("sentinel", "[DONE]", NoStats)


\* events the relay obtains from generate_stream: the decoded line, or the
\* {'error': ...} dict its except clauses yield
ErrorEvent(msg) == Line("object", Obj({"error"}, msg, "", FALSE, NoStats))

\* json.loads(line.decode('utf-8')), by what it does on each kind of line
Decode(l) ==
  CASE l.kind = "badutf8" -> "UnicodeDecodeError"
    [] l.kind = "badjson" -> "JSONDecodeError"
    [] OTHER -> "ok"

\* the body of the for loop of chat.generate up to its first yield for the
\* decoded object o: the position it suspends at and the chunk it yields
FirstYieldNoErrorCheck(o) ==
  IF Has(o, "response") THEN [pc |-> "y_response", chunks |-> <<ResponseChunk(o)>>]
  ELSE IF GetDone(o) THEN [pc |-> "y_done", chunks |-> <<DoneChunk(o)>>]
  ELSE [pc |-> "reading", chunks |-> <<>>]
FirstYieldResponseTwice(o) ==
  IF Has(o, "error") THEN [pc |-> "y_error", chunks |-> <<ErrorChunk(o.error)>>]
  ELSE IF Has(o, "response")
    THEN [pc |-> "y_response", chunks |-> <<ResponseChunk(o), ResponseChunk(o)>>]
  ELSE IF GetDone(o) THEN [pc |-> "y_done", chunks |-> <<DoneChunk(o)>>]
  ELSE [pc |-> "reading", chunks |-> <<>>]
FirstYieldResponseFirst(o) ==
  IF Has(o, "response") THEN [pc |-> "y_response", chunks |-> <<ResponseChunk(o)>>]
  ELSE IF Has(o, "error") THEN [pc |-> "y_error", chunks |-> <<ErrorChunk(o.error)>>]
  ELSE IF GetDone(o) THEN [pc |-> "y_done", chunks |-> <<DoneChunk(o)>>]
  ELSE [pc |-> "reading", chunks |-> <<>>]
FirstYield(o) ==
  IF Has(o, "error") THEN [pc |-> "y_error", chunks |-> <<ErrorChunk(o.error)>>]
  ELSE IF Has(o, "response") THEN [pc |-> "y_response", chunks |-> <<ResponseChunk(o)>>]
  ELSE IF GetDone(o) THEN [pc |-> "y_done", chunks |-> <<DoneChunk(o)>>]
  ELSE [pc |-> "reading", chunks |-> <<>>]

\* what chat.generate does with one event of generate_stream: a JSON value
\* that is not an object makes `'error' in chunk` / chunk.get raise, which
\* the except clause turns into an error chunk
HandleEventNoExcept(ev) ==
  IF ev.kind = "object" THEN FirstYield(ev.obj)
  ELSE [pc |-> "y_sentinel", chunks |-> <<Sentinel>>]
HandleEvent(ev) ==
  IF ev.kind = "object" THEN FirstYield(ev.obj)
  ELSE [pc |-> "y_exc", chunks |-> <<ErrorChunk(ExcMsg)>>]

\* the chunks the finally clause of chat.generate yields
FinallyYieldsNothing == <<>>
FinallyYieldsTwice == <<Sentinel, Sentinel>>
FinallyChunks == <<Sentinel>>

\* outcomes of session.post(...) followed by raise_for_status()
PostResults == {"ok", "connerr", "timeout", "httperror"}
\* failures of the transport while iter_lines() is read
StreamFailures == {"connerr", "reqexc"}
\* the message of the dict generate_stream yields for a failure
FailureMsg(f) == IF f \in {"connerr", "timeout"} THEN ConnFailedMsg ELSE RequestFailedMsg

\* one upstream HTTP call: the URL it targets and the JSON it posts
Payload(url, m, prompt, stream, system) ==
  [url |-> url, api |-> "/api/generate", model |-> m, prompt |-> prompt,
   stream |-> stream, system |-> system]
\* session.get(f"{self.base_url}/api/tags", timeout=5)
TagsCall(url) ==
  [url |-> url, api |-> "/api/tags", model |-> "", prompt |-> <<>>,
   stream |-> FALSE, system |-> FALSE]

\* one entry of the upstream listing; keys is the set of fields it holds
Entry(keys, name, size, modified_at) ==
  [keys |-> keys, name |-> name, size |-> size, modified_at |-> modified_at]
EntryFull == Entry({"name", "size", "modified_at"}, "codellama", 3, "2024-01-01")
EntryBare == Entry({"size"}, "", 5, "")
\* m.get('name', 'unknown')
NameOf(m) == IF "name" \in m.keys THEN m.name ELSE UnknownName
\* the projection get_models() returns for one entry
Project(m) ==
  [name |-> NameOf(m),
   size |-> IF "size" \in m.keys THEN m.size ELSE 0,
   modified |-> IF "modified_at" \in m.keys THEN m.modified_at ELSE ""]

\* what the upstream does with one blocking call: the transport fails
\* (connerr, timeout, reqexc for any other RequestException), or an HTTP
\* answer arrives with a status code and a JSON body.  A body is a dict
\* (keys tells whether it has "models"; obj is the dict of /api/generate)
\* or a JSON value that is not a dict.  A 200 answer whose body is not JSON
\* is left out: what response.json() raises for it depends on the version
\* of requests.
Answer(result, code, kind, keys, models, o) ==
  [result |-> result, code |-> code, kind |-> kind, keys |-> keys,
   models |-> models, obj |-> o]
Failed(f) == Answer(f, 0, "none", {}, <<>>, EmptyObj)
Unreachable(a) == a.result \in {"connerr", "timeout", "reqexc"}
TagAnswers ==
  {Failed(f) : f \in {"connerr", "timeout", "reqexc"}}
    \cup {Answer("http", 500, "dict", {}, <<>>, EmptyObj),
          Answer("http", 200, "dict", {"models"}, <<EntryFull, EntryBare>>, EmptyObj),
          Answer("http", 200, "dict", {"models"}, <<>>, EmptyObj),
          Answer("http", 200, "dict", {}, <<>>, EmptyObj),
          Answer("http", 200, "nondict", {}, <<>>, EmptyObj)}
GenerateAnswers ==
  {Failed(f) : f \in {"connerr", "timeout", "reqexc"}}
    \cup {Answer("http", 200, "dict", {}, <<>>, o) : o \in Objects}
    \cup {Answer("http", 500, "dict", {}, <<>>, ObjErr)}

\* OllamaClient.check_health on the answer a
CheckHealth(a) == a.result = "http" /\ a.code = 200
\* OllamaClient.list_models on the answer a: the list it returns, or the
\* exception that escapes it (.get on a JSON value that is not a dict)
ListModelsRaisesWhenDown(a) ==
  IF a.result # "http" THEN [raised |-> TRUE, models |-> <<>>]
  ELSE IF a.code # 200 THEN [raised |-> FALSE, models |-> <<>>]
  ELSE IF a.kind # "dict" THEN [raised |-> TRUE, models |-> <<>>]
  ELSE [raised |-> FALSE, models |-> IF "models" \in a.keys THEN a.models ELSE <<>>]
ListModels(a) ==
  IF a.result # "http" THEN [raised |-> FALSE, models |-> <<>>]
  ELSE IF a.code # 200 THEN [raised |-> FALSE, models |-> <<>>]
  ELSE IF a.kind # "dict" THEN [raised |-> TRUE, models |-> <<>>]
  ELSE [raised |-> FALSE, models |-> IF "models" \in a.keys THEN a.models ELSE <<>>]

\* the JSON body of an answer of the gateway
Reply(type, msg, o, connected, models) ==
  [type |-> type, msg |-> msg, obj |-> o, connected |-> connected, models |-> models]
NoReply == Reply("none", "", EmptyObj, FALSE, <<>>)
ErrorReply(msg) == Reply("error", msg, EmptyObj, FALSE, <<>>)
JsonReply(o) == Reply("json", "", o, FALSE, <<>>)
\* health_check(): status, ollama_connected and the names; models_available
\* is the length of the names
HealthReply(connected, models) ==
  Reply("health", IF connected THEN "healthy" ELSE "degraded", EmptyObj, connected,
        [i \in 1..Len(models) |-> NameOf(models[i])])
\* get_models(): the projected list
ModelsReply(models) ==
  Reply("models", "", EmptyObj, FALSE, [i \in 1..Len(models) |-> Project(models[i])])

\* the OllamaClient object: its base URL and its requests.Session
Client(url) == [base_url |-> url, session |-> "pool"]
\* the client after generate_stream has posted payload p: the payload and
\* the response are locals of the call, nothing is stored on self
ClientKeepsPayload(c, p) == [c EXCEPT !.session = p.model]
ClientAfterPost(c, p) == c

\* ------------------------------------------------------------------ state
VARIABLES
  kind,         \* kind[s]: the endpoint session s called, "none" before it calls
  req,          \* req[s]: the body of the request, as request.json returns it
  status,       \* status[s]: HTTP status of the answer, 0 while there is none
  body,         \* body[s]: the JSON body of a non-streaming answer
  userMessage,  \* userMessage[s]: user_message captured by generate()
  model,        \* model[s]: model captured by generate()
  pc,           \* pc[s]: where chat.generate is suspended
  chunk,        \* chunk[s]: the loop variable of chat.generate
  lines,        \* lines[s]: lines iter_lines() has delivered so far
  events,       \* events[s]: values generate_stream has yielded so far
  decoder,      \* decoder[s]: state of the generate_stream generator
  out,          \* out[s]: chunks the WSGI server obtained from generate()
  calls,        \* calls[s]: upstream POSTs made for session s
  conn,         \* conn[s]: the upstream streaming connection
  postResult,   \* postResult[s]: outcome of the streaming POST
  exitPath,     \* exitPath[s]: how generate() left its try block
  closeResult,  \* closeResult[s]: outcome of close() on generate()
  dropped,      \* dropped[s]: chunks generate() yielded into close()
  answers,      \* answers[s]: what the upstream did with the blocking calls of s
  OLLAMA_API_URL, \* the module global
  ollama,       \* the module-level OllamaClient
  mainRan,      \* whether main() has run
  bootCalls     \* upstream calls main() made

vars ==
  <<kind, req, status, body, userMessage, model, pc, chunk, lines, events,
    decoder, out, calls, conn, postResult, exitPath, closeResult, dropped,
    answers, OLLAMA_API_URL, ollama, mainRan, bootCalls>>

\* what the module and main() set up
bootVars == <<OLLAMA_API_URL, mainRan, bootCalls>>

reqVars == <<kind, req, status, body, userMessage, model>>
streamVars == <<chunk, lines, events, decoder, conn, postResult>>

Sessions == DOMAIN pc

InitFor(S) ==
  /\ kind = [s \in S |-> "none"]
  /\ req = [s \in S |-> NoBody]
  /\ status = [s \in S |-> 0]
  /\ body = [s \in S |-> NoReply]
  /\ userMessage = [s \in S |-> <<>>]
  /\ model = [s \in S |-> ""]
  /\ pc = [s \in S |-> "idle"]
  /\ chunk = [s \in S |-> EmptyObj]
  /\ lines = [s \in S |-> <<>>]
  /\ events = [s \in S |-> <<>>]
  /\ decoder = [s \in S |-> "unstarted"]
  /\ out = [s \in S |-> <<>>]
  /\ calls = [s \in S |-> <<>>]
  /\ conn = [s \in S |-> "none"]
  /\ postResult = [s \in S |-> "none"]
  /\ exitPath = [s \in S |-> "none"]
  /\ closeResult = [s \in S |-> "none"]
  /\ dropped = [s \in S |-> <<>>]
  /\ answers = [s \in S |-> <<>>]
  /\ OLLAMA_API_URL = DefaultUrl
  /\ ollama = Client(OLLAMA_API_URL)
  /\ mainRan = FALSE
  /\ bootCalls = <<>>

SessionIds == {1}
Init == InitFor(SessionIds)

\* --------------------------------------------------------------- handlers
\* the validation both chat() and chat_simple() start with: the status and
\* error text of the rejection, or status 0 when the request is accepted
Validate(data) ==
  IF ~Truthy(data) THEN [status |-> 400, msg |-> NoDataMsg]
  ELSE IF Strip(GetMessage(data)) = <<>> THEN [status |-> 400, msg |-> MessageRequiredMsg]
  ELSE [status |-> 0, msg |-> ""]

\* POST /api/chat: reject, or answer with Response(generate())
Chat(s, data) ==
  /\ kind[s] = "none"
  /\ kind' = [kind EXCEPT ![s] = "chat"]
  /\ req' = [req EXCEPT ![s] = data]
  /\ LET v == Validate(data) IN
       IF v.status # 0
       THEN /\ status' = [status EXCEPT ![s] = v.status]
            /\ body' = [body EXCEPT ![s] = ErrorReply(v.msg)]
            /\ pc' = [pc EXCEPT ![s] = "responded"]
            /\ UNCHANGED <<userMessage, model>>
       ELSE /\ status' = [status EXCEPT ![s] = 200]
            /\ userMessage' = [userMessage EXCEPT ![s] = Strip(GetMessage(data))]
            /\ model' = [model EXCEPT ![s] = GetModel(data)]
            /\ pc' = [pc EXCEPT ![s] = "created"]
            /\ UNCHANGED body
  /\ UNCHANGED <<streamVars, out, calls, exitPath, closeResult, dropped>>
  /\ UNCHANGED <<bootVars, ollama, answers>>

\* the answer of chat_simple() to what the upstream did with its POST:
\* the upstream JSON, 503 for a connection failure or timeout, 500 with
\* str(e) for raise_for_status() and every other RequestException
SimpleReply(a) ==
  IF a.result \in {"connerr", "timeout"}
    THEN [status |-> 503, body |-> ErrorReply(ConnFailedMsg)]
  ELSE IF a.result = "reqexc" THEN [status |-> 500, body |-> ErrorReply(ExcMsg)]
  ELSE IF a.code # 200 THEN [status |-> 500, body |-> ErrorReply(HttpErrorMsg)]
  ELSE [status |-> 200, body |-> JsonReply(a.obj)]

\* POST /api/chat/simple: reject, or one blocking upstream POST
ChatSimple(s, data) ==
  /\ kind[s] = "none"
  /\ kind' = [kind EXCEPT ![s] = "simple"]
  /\ req' = [req EXCEPT ![s] = data]
  /\ pc' = [pc EXCEPT ![s] = "responded"]
  /\ LET v == Validate(data) IN
       IF v.status # 0
       THEN /\ status' = [status EXCEPT ![s] = v.status]
            /\ body' = [body EXCEPT ![s] = ErrorReply(v.msg)]
            /\ UNCHANGED <<calls, answers>>
       ELSE /\ calls' = [calls EXCEPT ![s] =
                  Append(@, Payload(OLLAMA_API_URL, GetModel(data),
                                    Strip(GetMessage(data)), FALSE, FALSE))]
            /\ \E a \in GenerateAnswers :
                 /\ answers' = [answers EXCEPT ![s] = <<a>>]
                 /\ status' = [status EXCEPT ![s] = SimpleReply(a).status]
                 /\ body' = [body EXCEPT ![s] = SimpleReply(a).body]
  /\ UNCHANGED <<userMessage, model, streamVars, out, exitPath, closeResult, dropped>>
  /\ UNCHANGED <<bootVars, ollama>>

\* GET /api/health: check_health(), then list_models() when it passed; an
\* exception that escapes list_models() is answered by the 500 handler
Health(s) ==
  /\ kind[s] = "none"
  /\ kind' = [kind EXCEPT ![s] = "health"]
  /\ pc' = [pc EXCEPT ![s] = "responded"]
  /\ \E a1 \in TagAnswers :
       IF ~CheckHealth(a1)
       THEN /\ answers' = [answers EXCEPT ![s] = <<a1>>]
            /\ calls' = [calls EXCEPT ![s] = <<TagsCall(ollama.base_url)>>]
            /\ status' = [status EXCEPT ![s] = 200]
            /\ body' = [body EXCEPT ![s] = HealthReply(FALSE, <<>>)]
       ELSE \E a2 \in TagAnswers :
            /\ answers' = [answers EXCEPT ![s] = <<a1, a2>>]
            /\ calls' = [calls EXCEPT ![s] =
                  <<TagsCall(ollama.base_url), TagsCall(ollama.base_url)>>]
            /\ IF ListModels(a2).raised
               THEN /\ status' = [status EXCEPT ![s] = 500]
                    /\ body' = [body EXCEPT ![s] = ErrorReply(InternalErrorMsg)]
               ELSE /\ status' = [status EXCEPT ![s] = 200]
                    /\ body' = [body EXCEPT ![s] = HealthReply(TRUE, ListModels(a2).models)]
  /\ UNCHANGED <<req, userMessage, model, streamVars, out, exitPath, closeResult, dropped>>
  /\ UNCHANGED <<bootVars, ollama>>

\* GET /api/models: list_models() and its projection
Models(s) ==
  /\ kind[s] = "none"
  /\ kind' = [kind EXCEPT ![s] = "models"]
  /\ pc' = [pc EXCEPT ![s] = "responded"]
  /\ calls' = [calls EXCEPT ![s] = <<TagsCall(ollama.base_url)>>]
  /\ \E a \in TagAnswers :
       /\ answers' = [answers EXCEPT ![s] = <<a>>]
       /\ IF ListModels(a).raised
          THEN /\ status' = [status EXCEPT ![s] = 500]
               /\ body' = [body EXCEPT ![s] = ErrorReply(InternalErrorMsg)]
          ELSE /\ status' = [status EXCEPT ![s] = 200]
               /\ body' = [body EXCEPT ![s] = ModelsReply(ListModels(a).models)]
  /\ UNCHANGED <<req, userMessage, model, streamVars, out, exitPath, closeResult, dropped>>
  /\ UNCHANGED <<bootVars, ollama>>

\* main(): the global OLLAMA_API_URL is set to --ollama-url (its default is
\* the module's value); check_ollama_connection() then probes the upstream
\* through the client the module built when it was imported.  main() runs
\* before the server accepts a request
Main(url) ==
  /\ ~mainRan
  /\ \A s \in Sessions : kind[s] = "none"
  /\ mainRan' = TRUE
  /\ OLLAMA_API_URL' = url
  /\ \E a1 \in TagAnswers :
       bootCalls' = IF CheckHealth(a1)
                    THEN <<TagsCall(ollama.base_url), TagsCall(ollama.base_url)>>
                    ELSE <<TagsCall(ollama.base_url)>>
  /\ UNCHANGED <<reqVars, streamVars, pc, out, calls, exitPath, closeResult, dropped,
                 answers, ollama>>


\* ------------------------------------------------------- chat.generate()
\* generate() suspends at yield y with the chunks cs handed to the server
Yield(s, y, cs) ==
  /\ pc' = [pc EXCEPT ![s] = y]
  /\ out' = [out EXCEPT ![s] = @ \o cs]

\* generate() leaves its try statement by path p and runs the finally clause
\* inside a next() call: it suspends at the sentinel, or returns when the
\* clause yields nothing
RunFinally(s, p) ==
  /\ exitPath' = [exitPath EXCEPT ![s] = p]
  /\ IF FinallyChunks # <<>>
     THEN Yield(s, "y_sentinel", FinallyChunks)
     ELSE Yield(s, "closed", <<>>)

\* generate_stream yields ev and generate() runs to its next suspension
Deliver(s, ev) ==
  /\ events' = [events EXCEPT ![s] = Append(@, ev)]
  /\ chunk' = [chunk EXCEPT ![s] = ev.obj]
  /\ Yield(s, HandleEvent(ev).pc, HandleEvent(ev).chunks)

\* the first next() on generate(): generate_stream is entered and POSTs
Start(s) ==
  /\ pc[s] = "created"
  /\ LET p == Payload(ollama.base_url, model[s], userMessage[s], TRUE, TRUE) IN
       /\ calls' = [calls EXCEPT ![s] = Append(@, p)]
       /\ ollama' = ClientAfterPost(ollama, p)
  /\ \E r \in PostResults :
       /\ postResult' = [postResult EXCEPT ![s] = r]
       /\ IF r = "ok"
          THEN /\ conn' = [conn EXCEPT ![s] = "open"]
               /\ decoder' = [decoder EXCEPT ![s] = "running"]
               /\ pc' = [pc EXCEPT ![s] = "reading"]
               /\ UNCHANGED <<events, chunk, out>>
          ELSE /\ decoder' = [decoder EXCEPT ![s] = "failed"]
               /\ Deliver(s, ErrorEvent(FailureMsg(r)))
               /\ UNCHANGED conn
  /\ UNCHANGED <<reqVars, lines, exitPath, closeResult, dropped>>
  /\ UNCHANGED <<bootVars, answers>>

\* iter_lines() delivers one more line
ReadLine(s) ==
  /\ pc[s] = "reading"
  /\ Len(lines[s]) < MaxLines
  /\ \E l \in Lines :
       /\ lines' = [lines EXCEPT ![s] = Append(@, l)]
       /\ IF l.kind = "blank" \/ Decode(l) = "JSONDecodeError"
          THEN UNCHANGED <<events, chunk, decoder, pc, out>>
          ELSE IF Decode(l) = "UnicodeDecodeError"
          THEN /\ decoder' = [decoder EXCEPT ![s] = "raised"]
               /\ Yield(s, "y_exc", <<ErrorChunk(ExcMsg)>>)
               /\ UNCHANGED <<events, chunk>>
          ELSE /\ Deliver(s, l)
               /\ UNCHANGED decoder
  /\ UNCHANGED <<reqVars, calls, conn, postResult, exitPath, closeResult, dropped>>
  /\ UNCHANGED <<bootVars, ollama, answers>>

\* the upstream body ends: iter_lines() is exhausted, generate_stream returns
EndOfStream(s) ==
  /\ pc[s] = "reading"
  /\ decoder' = [decoder EXCEPT ![s] = "returned"]
  /\ conn' = [conn EXCEPT ![s] = "released"]
  /\ RunFinally(s, "exhausted")
  /\ UNCHANGED <<reqVars, chunk, lines, events, calls, postResult, closeResult, dropped>>
  /\ UNCHANGED <<bootVars, ollama, answers>>

\* the transport fails while the body is read: generate_stream's except
\* clauses yield an error dict
StreamFail(s) ==
  /\ pc[s] = "reading"
  /\ \E f \in StreamFailures :
       /\ decoder' = [decoder EXCEPT ![s] = "failed"]
       /\ conn' = [conn EXCEPT ![s] = "released"]
       /\ Deliver(s, ErrorEvent(FailureMsg(f)))
  /\ UNCHANGED <<reqVars, lines, calls, postResult, exitPath, closeResult, dropped>>
  /\ UNCHANGED <<bootVars, ollama, answers>>

ReleaseConn(s) ==
  conn' = [conn EXCEPT ![s] = IF @ = "open" THEN "released" ELSE @]

\* the server has written the chunk and calls next() again
Resume(s) ==
  /\ closeResult[s] = "none"
  /\ \/ /\ pc[s] = "y_response"
        /\ IF GetDone(chunk[s])
           THEN Yield(s, "y_done", <<DoneChunk(chunk[s])>>)
           ELSE Yield(s, "reading", <<>>)
        /\ UNCHANGED <<exitPath, conn>>
     \/ /\ pc[s] = "y_done"
        /\ Yield(s, "reading", <<>>)
        /\ UNCHANGED <<exitPath, conn>>
     \/ /\ pc[s] = "y_error"
        /\ RunFinally(s, "upstream_error")
        /\ UNCHANGED conn
     \/ /\ pc[s] = "y_exc"
        /\ RunFinally(s, "exception")
        /\ UNCHANGED conn
     \/ /\ pc[s] = "y_sentinel"
        /\ Yield(s, "closed", <<>>)
        /\ ReleaseConn(s)
        /\ UNCHANGED exitPath
  /\ UNCHANGED <<reqVars, chunk, lines, events, decoder, calls, postResult, closeResult, dropped>>
  /\ UNCHANGED <<bootVars, ollama, answers>>

\* the client is gone: the server calls close() on generate(), which throws
\* GeneratorExit at the yield it is suspended at.  `except Exception` does not
\* catch it; the finally clause runs, and a generator that yields while it is
\* being closed makes close() raise RuntimeError and stays suspended there
Close(s) ==
  /\ closeResult[s] = "none"
  /\ \/ /\ pc[s] \in {"y_response", "y_done", "y_error", "y_exc"}
        /\ exitPath' = [exitPath EXCEPT ![s] = "client"]
        /\ dropped' = [dropped EXCEPT ![s] = FinallyChunks]
        /\ IF FinallyChunks # <<>>
           THEN /\ pc' = [pc EXCEPT ![s] = "y_sentinel"]
                /\ closeResult' = [closeResult EXCEPT ![s] = "RuntimeError"]
                /\ UNCHANGED conn
           ELSE /\ pc' = [pc EXCEPT ![s] = "closed"]
                /\ closeResult' = [closeResult EXCEPT ![s] = "clean"]
                /\ ReleaseConn(s)
     \/ /\ pc[s] = "y_sentinel"
        /\ pc' = [pc EXCEPT ![s] = "closed"]
        /\ closeResult' = [closeResult EXCEPT ![s] = "clean"]
        /\ ReleaseConn(s)
        /\ UNCHANGED <<exitPath, dropped>>
  /\ UNCHANGED <<reqVars, chunk, lines, events, decoder, out, calls, postResult>>
  /\ UNCHANGED <<bootVars, ollama, answers>>

\* the generator close() left suspended is deallocated: GeneratorExit is
\* thrown at the yield of the finally clause and the generator returns
Finalize(s) ==
  /\ pc[s] = "y_sentinel"
  /\ closeResult[s] = "RuntimeError"
  /\ pc' = [pc EXCEPT ![s] = "closed"]
  /\ ReleaseConn(s)
  /\ UNCHANGED <<reqVars, chunk, lines, events, decoder, out, calls, postResult,
                 exitPath, closeResult, dropped>>
  /\ UNCHANGED <<bootVars, ollama, answers>>

\* one step of the gateway, the request bodies drawn from B
NextWith(B) ==
  \/ \E s \in Sessions, data \in B : Chat(s, data)
  \/ \E s \in Sessions, data \in B : ChatSimple(s, data)
  \/ \E s \in Sessions : Health(s)
  \/ \E s \in Sessions : Models(s)
  \/ \E s \in Sessions : Start(s)
  \/ \E s \in Sessions : ReadLine(s)
  \/ \E s \in Sessions : EndOfStream(s)
  \/ \E s \in Sessions : StreamFail(s)
  \/ \E s \in Sessions : Resume(s)
  \/ \E s \in Sessions : Close(s)
  \/ \E s \in Sessions : Finalize(s)

Next == NextWith(Bodies)

Spec == Init /\ [][Next]_vars

\* the server keeps iterating, the upstream ends, fails or times out, and a
\* generator nobody references is deallocated
Fairness ==
  \A s \in SessionIds :
    /\ WF_vars(Start(s))
    /\ WF_vars(ReadLine(s) \/ EndOfStream(s) \/ StreamFail(s))
    /\ WF_vars(Resume(s))
    /\ WF_vars(Finalize(s))

\* generate() and generate_stream() never branch on the model or the message
\* they were given, so the specification with fairness draws the request
\* from one body of each kind: absent, rejected and accepted
LiveBodies ==
  {NoBody, Dict({"message", "model"}, <<" ">>, "llama3"), Dict({"message"}, <<"a">>, "")}
NextLive == NextWith(LiveBodies)

SpecLive == Init /\ [][NextLive]_vars /\ Fairness

\* the server started by main(), with --ollama-url or without
NextBoot == (\E url \in Urls : Main(url)) \/ NextWith(LiveBodies)
SpecBoot == Init /\ [][NextBoot]_vars

\* two requests served side by side by the threaded server.  The upstream
\* answers each streaming call with lines of its own, so that a chunk can be
\* traced to the call it came from
ConcSessionIds == {1, 2}
ConcBodies ==
  {NoBody, Dict({"message"}, <<"a">>, ""), Dict({"message", "model"}, <<"a", "a">>, "llama3")}
ConcLines(s) ==
  IF s = 1 THEN {Line("object", ObjA), Line("object", ObjDone)}
  ELSE {Line("object", ObjBDone), Line("object", ObjErr)}
ConcLimit ==
  \A s \in Sessions :
    /\ Len(lines[s]) <= ConcMaxLines
    /\ \A i \in 1..Len(lines[s]) : lines[s][i] \in ConcLines(s)
InitConc == InitFor(ConcSessionIds)
NextConc == NextWith(ConcBodies) /\ ConcLimit'
SpecConc == InitConc /\ [][NextConc]_vars


\* ------------------------------------------------------------ properties
Types(o) == [i \in 1..Len(o) |-> o[i].type]
Count(o, T) == Cardinality({i \in 1..Len(o) : o[i].type \in T})
IsPrefix(p, q) == Len(p) <= Len(q) /\ SubSeq(q, 1, Len(p)) = p
RECURSIVE Texts(_)
Texts(q) == IF q = <<>> THEN <<>> ELSE <<Head(q).text>> \o Texts(Tail(q))
RECURSIVE ResponseFields(_)
ResponseFields(evs) ==
  IF evs = <<>> THEN <<>>
  ELSE (IF Has(Head(evs).obj, "response") THEN <<Head(evs).obj.response>> ELSE <<>>)
         \o ResponseFields(Tail(evs))
IsResponse(c) == c.type = "response"
NoErrorField(ev) == ~Has(ev.obj, "error")
IsJsonLine(l) == l.kind \in {"scalar", "object"}
\* the three ways generate() leaves its try statement while the client listens
ServedPaths == {"exhausted", "upstream_error", "exception"}
\* response*, then one done or error, then the sentinel
Grammar(o) ==
  /\ Len(o) >= 2
  /\ o[Len(o)] = Sentinel
  /\ o[Len(o) - 1].type \in {"done", "error"}
  /\ \A i \in 1..(Len(o) - 2) : o[i].type = "response"
\* the events generate_stream yielded for lines (not from its except clauses)
LineEvents(s) ==
  IF decoder[s] = "failed" THEN SubSeq(events[s], 1, Len(events[s]) - 1) ELSE events[s]

\* C1: when a /chat session with a valid message has run to its end, the
\* chunks handed to the client are zero or more response chunks, then exactly
\* one done or error chunk, then exactly one [DONE] sentinel.
C1_ChunkGrammar ==
  \A s \in Sessions :
    (kind[s] = "chat" /\ pc[s] = "closed" /\ exitPath[s] \in ServedPaths)
      => Grammar(out[s])

\* C2: on each of the three exit paths (upstream exhausted, upstream error
\* relayed, exception while iterating) the [DONE] sentinel is produced exactly
\* once and is the last chunk; no chunk ever follows a sentinel.
C2_SentinelOnceAndLast ==
  \A s \in Sessions :
    /\ Count(out[s], {"sentinel"}) <= 1
    /\ \A i \in 1..Len(out[s]) : out[s][i] = Sentinel => i = Len(out[s])
    /\ exitPath[s] \in ServedPaths
         => (out[s] # <<>> /\ out[s][Len(out[s])] = Sentinel)
C2_Witness ==
  \E s \in Sessions :
    /\ pc[s] = "closed"
    /\ exitPath[s] = "exception"
    /\ Len(out[s]) >= 3
    /\ out[s][Len(out[s])] = Sentinel

\* C3: a /chat session emits at most one terminal chunk (done or error), and
\* after a done chunk no response, done or error chunk is emitted.
C3_AtMostOneTerminal ==
  \A s \in Sessions :
    /\ Count(out[s], {"done", "error"}) <= 1
    /\ \A i, j \in 1..Len(out[s]) :
         (i < j /\ out[s][i].type = "done") => out[s][j].type = "sentinel"

\* C4: for /chat and /chat/simple, a request with no body, or whose message
\* is missing, empty or whitespace-only, is answered 400 with no upstream
\* call and no event stream.
InvalidRequest(d) ==
  \/ ~d.present
  \/ "message" \notin d.keys
  \/ \A i \in 1..Len(d.message) : d.message[i] \in Whitespace
C5_ConnectFailure ==
  \A s \in Sessions :
    postResult[s] \in {"connerr", "timeout"}
      => /\ lines[s] = <<>>
         /\ out[s] # <<>>
         /\ IsPrefix(Types(out[s]), <<"error", "sentinel">>)
         /\ exitPath[s] = "upstream_error" => Types(out[s]) = <<"error", "sentinel">>
C5_Witness ==
  \E s \in Sessions :
    /\ postResult[s] = "timeout"
    /\ pc[s] = "closed"
    /\ closeResult[s] = "none"
    /\ out[s] = <<ErrorChunk(ConnFailedMsg), Sentinel>>

\* C6: when the upstream body ends without a done object or an error object,
\* the session emits an error chunk before the [DONE] sentinel.
C6_TruncationIsError ==
  \A s \in Sessions :
    (/\ exitPath[s] = "exhausted"
     /\ \A i \in 1..Len(events[s]) :
          ~GetDone(events[s][i].obj) /\ ~Has(events[s][i].obj, "error"))
      => \E i \in 1..Len(out[s]) : out[s][i].type = "error"

\* C7 as stated: the response chunks are exactly the response fields of all
\* decoded upstream objects, one chunk per object, in upstream order.
C7_EveryResponseFieldRelayed ==
  \A s \in Sessions :
    Texts(SelectSeq(out[s], IsResponse)) = ResponseFields(events[s])
\* C7 amended: the response chunks are exactly the response fields of the
\* decoded upstream objects that carry no error field, one chunk per such
\* object, in upstream order.
C7_ResponsesRelayedInOrder ==
  \A s \in Sessions :
    Texts(SelectSeq(out[s], IsResponse))
      = ResponseFields(SelectSeq(events[s], NoErrorField))
C7_Witness ==
  \E s \in Sessions :
    /\ Len(events[s]) = 3
    /\ Has(events[s][3].obj, "error") /\ Has(events[s][3].obj, "response")
    /\ Texts(SelectSeq(out[s], IsResponse)) = <<"b", "a">>

\* C8: in the streaming decoder a blank line or a line that is not valid JSON
\* yields no event and neither ends the sequence nor raises: the events
\* yielded for lines are exactly the valid JSON lines, in order.
C8_NoiseSkipped ==
  \A s \in Sessions :
    /\ decoder[s] # "raised"
    /\ LineEvents(s) = SelectSeq(lines[s], IsJsonLine)

\* C9: when the response generator is closed while suspended at a chunk, the
\* session reads no further upstream event, releases the upstream connection
\* once it has wound down, and close() raises no error.
C9_CleanDisconnect ==
  \A s \in Sessions :
    closeResult[s] # "none"
      => /\ closeResult[s] = "clean"
         /\ pc[s] # "reading"
         /\ pc[s] = "closed" => conn[s] # "open"

\* C10: every /chat session that starts streaming eventually reaches the
\* closed state, and whenever it is closed the finally clause has yielded
\* the [DONE] sentinel (to the server, or into close() when the client left).
SentinelYielded(s) ==
  \/ \E i \in 1..Len(out[s]) : out[s][i] = Sentinel
  \/ \E i \in 1..Len(dropped[s]) : dropped[s][i] = Sentinel
C10_ClosedAfterSentinel ==
  \A s \in SessionIds :
    /\ (pc[s] \in {"created", "reading", "y_response", "y_done", "y_error",
                   "y_exc", "y_sentinel"}) ~> (pc[s] = "closed")
    /\ [](pc[s] = "closed" => SentinelYielded(s))
C10_Witness ==
  \E s \in Sessions :
    /\ pc[s] = "closed"
    /\ exitPath[s] = "client"
    /\ dropped[s] = <<Sentinel>>
    /\ Count(out[s], {"response"}) >= 1


IsNotSentinel(c) == c.type # "sentinel"
HasResponse(ev) == Has(ev.obj, "response")
HasDone(ev) == GetDone(ev.obj)

\* C16: when a decoded upstream object has an error field, the session emits
\* one error chunk carrying that message, no response or done chunk for that
\* object, and consumes no further upstream event before the sentinel.
C16_ErrorObjectEndsRelay ==
  \A s \in Sessions :
    \A i \in 1..Len(events[s]) :
      Has(events[s][i].obj, "error")
        => /\ i = Len(events[s])
           /\ pc[s] \in {"y_error", "y_sentinel", "closed"}
           /\ Count(out[s], {"error"}) = 1
           /\ LET o == SelectSeq(out[s], IsNotSentinel)
              IN  o[Len(o)] = ErrorChunk(events[s][i].obj.error)
           /\ Count(out[s], {"response"})
                = Len(SelectSeq(SubSeq(events[s], 1, i - 1), HasResponse))
           /\ Count(out[s], {"done"})
                = Len(SelectSeq(SubSeq(events[s], 1, i - 1), HasDone))
C16_Witness ==
  \E s \in Sessions :
    /\ Len(events[s]) = 2
    /\ events[s][1].obj = ObjBDone
    /\ events[s][2].obj = ObjErrResp
    /\ pc[s] = "closed"
    /\ closeResult[s] = "none"
    /\ Types(out[s]) = <<"response", "done", "error", "sentinel">>

\* C17: an exception raised while generate() iterates the upstream sequence
\* (by the decoder, or by the loop body on a value that is not an object)
\* becomes an error chunk, and the sentinel follows it: it never ends the
\* response without them.
ExceptionRaised(s) ==
  decoder[s] = "raised" \/ \E i \in 1..Len(events[s]) : events[s][i].kind = "scalar"
C17_ExceptionBecomesErrorChunk ==
  \A s \in Sessions :
    ExceptionRaised(s)
      => /\ pc[s] \in {"y_exc", "y_sentinel", "closed"}
         /\ LET o == SelectSeq(out[s], IsNotSentinel)
            IN  o # <<>> /\ o[Len(o)] = ErrorChunk(ExcMsg)
         /\ (pc[s] # "y_exc" /\ closeResult[s] = "none")
              => (exitPath[s] = "exception" /\ out[s][Len(out[s])] = Sentinel)
C17_Witness ==
  \E s \in Sessions :
    /\ decoder[s] = "raised"
    /\ Len(lines[s]) = 3
    /\ pc[s] = "closed"
    /\ Types(out[s]) = <<"response", "response", "error", "sentinel">>

\* C18: for an upstream object with a response field and done = true (and no
\* error field) the session emits the response chunk and then the done chunk,
\* whose four statistics are copied from the object, 0 when absent.
C18_ResponseThenDone ==
  \A s \in Sessions :
    /\ (pc[s] = "y_done" /\ Has(chunk[s], "response"))
         => /\ Len(out[s]) >= 2
            /\ out[s][Len(out[s]) - 1] = Chunk("response", chunk[s].response, NoStats)
            /\ out[s][Len(out[s])].type = "done"
            /\ \A f \in StatFields :
                 out[s][Len(out[s])].stats[f]
                   = IF f \in chunk[s].keys THEN chunk[s].stats[f] ELSE 0
    /\ (pc[s] \in {"y_done", "reading"})
         => /\ Count(out[s], {"response"}) = Len(SelectSeq(events[s], HasResponse))
            /\ Count(out[s], {"done"}) = Len(SelectSeq(events[s], HasDone))
C18_Witness ==
  \E s \in Sessions :
    /\ pc[s] = "y_done"
    /\ chunk[s] = ObjBDone
    /\ Len(out[s]) = 3
    /\ out[s][3].stats["eval_count"] = 7
    /\ out[s][3].stats["total_duration"] = 0


\* C12: once main() has resolved the upstream base URL, every upstream call
\* of every endpoint targets that URL.
C12_OneResolvedUrl ==
  mainRan =>
    \A s \in Sessions : \A i \in 1..Len(calls[s]) : calls[s][i].url = OLLAMA_API_URL

\* C13: whatever the upstream does (unreachable, timing out, not 200, 200
\* with any body, changing between the probe and the listing), /health
\* answers 200; and when the upstream is unreachable the answer has
\* ollama_connected false and no models.
C13_HealthAlways200 ==
  \A s \in Sessions :
    kind[s] = "health"
      => /\ status[s] = 200
         /\ Unreachable(answers[s][1])
              => (body[s].type = "health" /\ ~body[s].connected /\ Len(body[s].models) = 0)

\* the texts a message of the gateway is made of
Parts(text) ==
  IF text = HttpErrorMsg
  THEN {"500 Server Error", "Internal Server Error", "<url>/api/generate"}
  ELSE {text}
Carries(text, m) == m \in Parts(text)
\* C14: for a valid /chat/simple request a connection failure or timeout
\* gives 503, an error response of the upstream gives 500 with the upstream's
\* own message text, and a success returns the upstream JSON unchanged.
C14_SimpleFailureClasses ==
  \A s \in Sessions :
    (kind[s] = "simple" /\ answers[s] # <<>>)
      => LET a == answers[s][1] IN
           /\ a.result \in {"connerr", "timeout"} => status[s] = 503
           /\ (a.result = "http" /\ a.code # 200 /\ Has(a.obj, "error"))
                => (status[s] = 500 /\ Carries(body[s].msg, a.obj.error))
           /\ (a.result = "http" /\ a.code = 200)
                => (status[s] = 200 /\ body[s] = JsonReply(a.obj))

\* what one chunk is made from, among the events evs
DerivedFrom(c, evs) ==
  CASE c.type = "response" ->
         \E j \in 1..Len(evs) : Has(evs[j].obj, "response") /\ c.text = evs[j].obj.response
    [] c.type = "done" ->
         \E j \in 1..Len(evs) :
           GetDone(evs[j].obj) /\ c.stats = [f \in StatFields |-> GetStat(evs[j].obj, f)]
    [] c.type = "error" ->
         c.text = ExcMsg
           \/ \E j \in 1..Len(evs) : Has(evs[j].obj, "error") /\ c.text = evs[j].obj.error
    [] OTHER -> TRUE
\* C11: with two /chat sessions running side by side over the shared client,
\* each session's upstream call carries its own model and message, each of
\* its chunks is made from its own upstream events and from none of the
\* other session's, and the shared client holds no state of a session.
C11_SessionsIsolated ==
  /\ ollama = Client(DefaultUrl)
  /\ \A s \in Sessions :
       kind[s] = "chat"
         => /\ \A i \in 1..Len(calls[s]) :
                 /\ calls[s][i].model = GetModel(req[s])
                 /\ calls[s][i].prompt = Strip(GetMessage(req[s]))
            /\ \A i \in 1..Len(out[s]) :
                 /\ DerivedFrom(out[s][i], events[s])
                 /\ \A u \in Sessions \ {s} :
                      out[s][i].type \in {"response", "done"}
                        => ~DerivedFrom(out[s][i], events[u])
C11_Witness ==
  /\ Sessions = ConcSessionIds
  /\ kind[1] = "chat" /\ kind[2] = "chat"
  /\ calls[1] # <<>> /\ calls[2] # <<>>
  /\ calls[1][1].model # calls[2][1].model
  /\ pc[1] = "y_response" /\ pc[2] = "y_done"
  /\ Types(out[1]) = <<"response">>
  /\ Types(out[2]) = <<"response", "done">>

\* C15: two /models calls for which the upstream answers the same return the
\* same projected list, an unreachable upstream gives 200 with an empty list,
\* and the calls leave the client and the module globals as they were.
C15_ModelsIdempotent ==
  /\ ollama = Client(DefaultUrl)
  /\ OLLAMA_API_URL = DefaultUrl
  /\ \A s \in Sessions :
       kind[s] = "models"
         => /\ Unreachable(answers[s][1])
                 => (status[s] = 200 /\ body[s].type = "models" /\ body[s].models = <<>>)
            /\ answers[s][1].models = <<EntryFull, EntryBare>>
                 => body[s].models
                      = <<[name |-> "codellama", size |-> 3, modified |-> "2024-01-01"],
                          [name |-> "unknown", size |-> 5, modified |-> ""]>>
            /\ \A u \in Sessions :
                 (kind[u] = "models" /\ answers[u] = answers[s])
                   => (status[u] = status[s] /\ body[u] = body[s])
C15_Witness ==
  /\ Sessions = ConcSessionIds
  /\ kind[1] = "models" /\ kind[2] = "models"
  /\ answers[1] = answers[2]
  /\ Len(body[1].models) = 2
  /\ body[1] = body[2]

====
